---- MODULE Spec2Model ----
(***************************************************************************)
(* A model of package log (src/log.go): a leveled logger that formats a   *)
(* line (time, level letter, caller location, body) and writes it to an   *)
(* io.WriteCloser under the Logger's mutex.                               *)
(*                                                                         *)
(* Strings are sequences of bytes; a byte is written as a one-character   *)
(* string, except the two bytes of the UTF-8 encoding of U+00E9, which    *)
(* are written "C3" and "A9".                                             *)
(***************************************************************************)
EXTENDS Integers, Sequences, FiniteSets, TLC

\* ------------------------------------------------------------------ bounds

\* Goroutines that log on the one Logger.
NThreads == 2
\* Log calls each goroutine makes, one after the other.
MaxCalls == 2
\* Threshold values tried below FatalLevel and above DebugLevel.
BelowFatal == 1
AboveDebug == 0
\* Writes the sink may fail of its own accord (a full disk, a broken pipe).
MaxFails == 1
\* What the owner may do while goroutines log: calls of Close and
\* assignments to Level and Time, counted together.
MaxOps == 1

\* ------------------------------------------------------- levels (l. 30-45)

FatalLevel == 0
ErrorLevel == 1
InfoLevel == 2
DebugLevel == 3

\* Level is an int: the field Logger.Level can hold a value outside the four.
LevelValues == (FatalLevel - BelowFatal)..(DebugLevel + AboveDebug)

\* ------------------------------------------------------------ byte strings

Digit(d) == <<"0", "1", "2", "3", "4", "5", "6", "7", "8", "9">>[d + 1]

RECURSIVE NatStr(_)
NatStr(n) == IF n < 10 THEN <<Digit(n)>> ELSE NatStr(n \div 10) \o <<Digit(n % 10)>>

\* strconv.Itoa, and the verb %d of an int.
Itoa(n) == IF n < 0 THEN <<"-">> \o NatStr(0 - n) ELSE NatStr(n)

RECURSIVE Spaces(_)
Spaces(n) == IF n <= 0 THEN <<>> ELSE <<" ">> \o Spaces(n - 1)

\* A byte that continues a UTF-8 sequence, and one that starts a 2-byte one.
IsCont(b) == b = "A9"
IsLead2(b) == b = "C3"

\* utf8.RuneCountInString: a well-formed 2-byte sequence is one rune, every
\* other byte (an ASCII byte, a stray lead or continuation byte) is one too.
RECURSIVE RuneCount(_)
RuneCount(s) ==
  IF s = <<>> THEN 0
  ELSE IF Len(s) >= 2 /\ IsLead2(s[1]) /\ IsCont(s[2])
       THEN 1 + RuneCount(SubSeq(s, 3, Len(s)))
       ELSE 1 + RuneCount(Tail(s))

\* The flag '-' with a width: pad with spaces on the right up to `width`
\* runes (fmt counts runes, not bytes, for %s; a number is ASCII).
PadRight(s, width) == s \o Spaces(width - RuneCount(s))

\* strings.HasSuffix(s, "\n")
HasNewlineSuffix(s) == Len(s) > 0 /\ s[Len(s)] = "\n"

\* time.Format("2006/01/02 15:04:05 "): every field zero-padded.
Pad2(n) == IF n < 10 THEN <<"0">> \o NatStr(n) ELSE NatStr(n)
TimeFormat(t) ==
  NatStr(t.Y) \o <<"/">> \o Pad2(t.M) \o <<"/">> \o Pad2(t.D) \o <<" ">>
    \o Pad2(t.h) \o <<":">> \o Pad2(t.m) \o <<":">> \o Pad2(t.s) \o <<" ">>

\* filepath.Base on a slash-separated path: trailing slashes are dropped,
\* the last element is kept; "" gives "." and a path of slashes gives "/".
RECURSIVE TrimSlashes(_)
TrimSlashes(p) ==
  IF Len(p) > 0 /\ p[Len(p)] = "/" THEN TrimSlashes(SubSeq(p, 1, Len(p) - 1)) ELSE p

RECURSIVE LastElem(_)
LastElem(p) ==
  IF \E i \in 1..Len(p) : p[i] = "/"
  THEN LastElem(Tail(p))
  ELSE p

Base(path) ==
  IF path = <<>> THEN <<".">>
  ELSE LET q == TrimSlashes(path) IN
       IF q = <<>> THEN <<"/">> ELSE LastElem(q)

\* ---------------------------------------------------------- fmt.Sprintf

\* A value handed to a verb: an int, a string, an error, or a nil error.
IntV(n) == [kind |-> "int", n |-> n, s |-> <<>>, id |-> 0]
StrV(s) == [kind |-> "str", n |-> 0, s |-> s, id |-> 0]
ErrV(id, s) == [kind |-> "err", n |-> 0, s |-> s, id |-> id]
NilV == [kind |-> "nil", n |-> 0, s |-> <<>>, id |-> 0]

\* What %d and %v print for a value.
Show(v) ==
  CASE v.kind = "int" -> Itoa(v.n)
    [] v.kind = "str" -> v.s
    [] v.kind = "err" -> v.s
    [] v.kind = "nil" -> <<"<", "n", "i", "l", ">">>

IsVerb(tok) == tok \in {"%d", "%v", "%s"}

\* A format is a sequence of tokens, each a literal byte or a verb; every
\* verb takes the next argument. (The inputs give every verb an argument of
\* its kind, so the %!verb(...) renderings of a mismatch do not arise.)
RECURSIVE Sprintf(_, _)
Sprintf(format, a) ==
  IF format = <<>> THEN <<>>
  ELSE IF IsVerb(format[1]) /\ a # <<>>
       THEN Show(a[1]) \o Sprintf(Tail(format), Tail(a))
       ELSE <<format[1]>> \o Sprintf(Tail(format), a)

\* ------------------------------------------------- the call stack (l. 82)

\* A frame is the place a function is executing at: a file and a line.
Frame(file, line) == [file |-> file, line |-> line]

LogGo == <<"/", "p", "/", "l", "o", "g", ".", "g", "o">>

\* The line of Logger.log that calls runtime.Caller.
LogFrame == Frame(LogGo, 82)

\* The line of each level method that calls l.log, and of each package-level
\* function that calls the method on Default.
MethodLine(kind) ==
  CASE kind = "Debugf" -> 115 [] kind = "Infof" -> 120 [] kind = "Errorf" -> 126
    [] kind = "Error" -> 132 [] kind = "Fatalf" -> 139 [] kind = "Fatal" -> 146

WrapperLine(kind) ==
  CASE kind = "Debugf" -> 159 [] kind = "Infof" -> 164 [] kind = "Errorf" -> 169
    [] kind = "Error" -> 173 [] kind = "Fatalf" -> 178 [] kind = "Fatal" -> 183

\* runtime.Caller(skip) on a stack whose first frame is the function that
\* calls runtime.Caller: frame skip+1, or ok = false past the last frame.
Caller(stack, skip) ==
  IF skip + 1 <= Len(stack)
  THEN [ok |-> TRUE, file |-> stack[skip + 1].file, line |-> stack[skip + 1].line]
  ELSE [ok |-> FALSE, file |-> <<>>, line |-> 0]

\* ------------------------------------------------ Logger.log (l. 73-111)

\* The width of the location field.
LocWidth == 18
\* The least width of the line number in it.
LineWidth == 4

Unknown == <<"u", "n", "k", "n", "o", "w", "n">>

\* A gate that also drops the messages at the threshold itself.
GatedOutAtThreshold(level, threshold) == level >= threshold

\* Line 74: the call returns at once when this holds.
GatedOut(level, threshold) == level > threshold

\* Line 82: the frame whose place is reported.
CallerDepth(skip) == 2 + skip

\* Line 86: "%s:%-4d" of the file's base name and the line.
FileLine(file, line) == Base(file) \o <<":">> \o PadRight(Itoa(line), LineWidth)

\* A cut that keeps the first LocWidth bytes.
CutRight(fl) == IF Len(fl) > LocWidth THEN SubSeq(fl, 1, LocWidth) ELSE fl

\* Lines 87-89: the last LocWidth bytes of a longer rendering.
CutLeft(fl) ==
  IF Len(fl) > LocWidth THEN SubSeq(fl, Len(fl) - LocWidth + 1, Len(fl)) ELSE fl

\* Lines 82-90: the location field, "%-18s" of the cut rendering.
Location(stack, skip) ==
  LET c == Caller(stack, CallerDepth(skip))
      file == IF c.ok THEN c.file ELSE Unknown
  IN  PadRight(CutLeft(FileLine(file, c.line)), LocWidth)

\* Lines 40-45 and 93-96: the level's letter, or its number.
levelToLetter(level) ==
  CASE level = FatalLevel -> <<"F">>
    [] level = ErrorLevel -> <<"E">>
    [] level = InfoLevel -> <<"_">>
    [] level = DebugLevel -> <<".">>
    [] OTHER -> Itoa(level)

\* A newline appended to every message.
AlwaysNewline(msg) == msg \o <<"\n">>

\* Lines 104-106: a newline is appended unless the message ends with one.
EnsureNewline(msg) == IF HasNewlineSuffix(msg) THEN msg ELSE msg \o <<"\n">>

\* Lines 79-106: the bytes handed to Write.
FormatLine(level, skip, format, a, stack, time, now) ==
  LET body == Sprintf(format, a)
      located == Location(stack, skip) \o <<" ">> \o body
      lettered == levelToLetter(level) \o <<" ">> \o located
      timed == IF time THEN TimeFormat(now) \o lettered ELSE lettered
  IN  EnsureNewline(timed)

\* ------------------------------------------- the level methods (l. 114-148)

\* Fatalf and Fatal logging at the level of Errorf and Error.
KindLevelFatalAsError(kind) ==
  CASE kind = "Debugf" -> DebugLevel
    [] kind = "Infof" -> InfoLevel
    [] kind \in {"Errorf", "Error", "Fatalf", "Fatal"} -> ErrorLevel

KindLevel(kind) ==
  CASE kind = "Debugf" -> DebugLevel
    [] kind = "Infof" -> InfoLevel
    [] kind \in {"Errorf", "Error"} -> ErrorLevel
    [] kind \in {"Fatalf", "Fatal"} -> FatalLevel

\* Every method passes this skip to log.
MethodSkip == 1

\* Lines 132 and 146: the format Error and Fatal log their error with.
ErrorFormat == <<"E", "r", "r", "o", "r", ":", " ", "%v", "\n">>

\* The format and the arguments a method hands to log.
LogFormat(in) == IF in.kind \in {"Error", "Fatal"} THEN ErrorFormat ELSE in.format
LogArgs(in, err) == IF in.kind \in {"Error", "Fatal"} THEN <<err>> ELSE in.args

IsFatalKind(kind) == kind \in {"Fatalf", "Fatal"}

Kinds == {"Debugf", "Infof", "Errorf", "Error", "Fatalf", "Fatal"}

\* ------------------------------------------------------------ the inputs

MainGo == <<"/", "s", "/", "m", "a", "i", "n", ".", "g", "o">>

\* A reading of the clock (time.Now()).
Clock1 == [Y |-> 2018, M |-> 3, D |-> 7, h |-> 9, m |-> 5, s |-> 42]

\* What a caller hands to one call: the method (kind), whether it calls the
\* method on a Logger or the package-level function of that name (route), the
\* format and its arguments (Debugf .. Fatalf) or the error's text (Error,
\* Fatal; nil for a nil error), the frames of the caller (the call site
\* first, then its callers), and what the clock reads during the call.
Input(kind, route, format, args, errText, user, now) ==
  [kind |-> kind, route |-> route, format |-> format, args |-> args,
   errText |-> errText, user |-> user, now |-> now]

Routes == {"method", "package"}

NoText == <<"nil">>

\* Goroutine t's n-th call names t and n in its body; it is made from line
\* 10 t + n of main.go, in a function called from line 90 + t. The Logger
\* is Default: odd goroutines call its methods (Default.Errorf), even ones
\* the package-level functions (Errorf).
ThreadFormat == <<"%d", "-", "%d">>
ThreadKinds == {"Errorf", "Fatal"}
ThreadRoute(t) == IF t % 2 = 1 THEN "method" ELSE "package"
ThreadInputs(t, n) ==
  { Input(k, ThreadRoute(t), ThreadFormat, <<IntV(t), IntV(n)>>,
          <<"e", Digit(t), "-", Digit(n)>>,
          <<Frame(MainGo, 10 * t + n), Frame(MainGo, 90 + t)>>, Clock1) :
      k \in ThreadKinds }

\* The inputs of the single-goroutine workload: file names and line numbers
\* of many lengths, and bodies that end with no, one or two newlines.
Alpha == <<"a", "b", "c", "d", "e", "f", "g", "h", "i", "j", "k", "l", "m", "n",
           "o", "p", "q", "r", "s", "t">>
DotGo == <<".", "g", "o">>
Dir == <<"/", "s", "/">>

\* A path whose base name is n letters and ".go".
Path(n) == Dir \o SubSeq(Alpha, 1, n) \o DotGo
\* A path whose base name starts with k times U+00E9.
RECURSIVE Accents(_)
Accents(k) == IF k = 0 THEN <<>> ELSE <<"C3", "A9">> \o Accents(k - 1)
AccentPath(k, n) == Dir \o Accents(k) \o SubSeq(Alpha, 1, n) \o DotGo

NameLengths == {1, 9, 10, 12, 14, 20}
Paths == {Path(n) : n \in NameLengths} \cup {AccentPath(1, 12), AccentPath(3, 7)}
Lines == {7, 123, 4567, 12345}

Clock2 == [Y |-> 2026, M |-> 11, D |-> 30, h |-> 23, m |-> 59, s |-> 7]

Elsewhere == Frame(MainGo, 5)

UserStacks ==
  UNION { { <<Frame(p, l)>>, <<Frame(p, l), Elsewhere>>, <<Elsewhere, Frame(p, l)>> } :
            p \in Paths, l \in Lines }

LocationInputs ==
  { Input("Errorf", r, <<"x">>, <<>>, NoText, u, Clock1) : r \in Routes, u \in UserStacks }

Formats ==
  { [format |-> <<"x">>, args |-> <<>>],
    [format |-> <<"x", "\n">>, args |-> <<>>],
    [format |-> <<"x", "\n", "\n">>, args |-> <<>>],
    [format |-> <<>>, args |-> <<>>],
    [format |-> <<"x", "=", "%d">>, args |-> <<IntV(5)>>],
    [format |-> <<"%s">>, args |-> <<StrV(<<"a", "\n">>)>>] }
ErrTexts == { <<"b">>, <<"b", "\n">>, NoText }

BodyStack == <<Frame(MainGo, 12), Frame(MainGo, 90)>>

BodyInputs ==
  { Input(k, r, f.format, f.args, NoText, BodyStack, c) :
      k \in {"Debugf", "Infof", "Errorf", "Fatalf"}, r \in Routes, f \in Formats,
      c \in {Clock1, Clock2} }
  \cup
  { Input(k, r, <<>>, <<>>, e, BodyStack, c) :
      k \in {"Error", "Fatal"}, r \in Routes, e \in ErrTexts, c \in {Clock1, Clock2} }

Threads == 1..NThreads

\* The goroutines that log, the calls each makes and what it may pass, in
\* the two workloads.
Active(workload) == IF workload = "goroutines" THEN Threads ELSE {1}
CallsOf(workload) == IF workload = "goroutines" THEN MaxCalls ELSE 1
Inputs(workload, t, n) ==
  IF workload = "goroutines" THEN ThreadInputs(t, n) ELSE LocationInputs \cup BodyInputs

\* -------------------------------------------------------------- the state

VARIABLES
  workload,  \* which goroutines run, and on which inputs
  Level,     \* Logger.Level
  Time,      \* Logger.Time
  mu,        \* Logger.Mutex: 0, or the goroutine that holds it
  w,         \* the bytes the sink has taken
  closed,    \* whether the sink has been closed
  exitCode,  \* -1, or the status the process ended with
  th,        \* each goroutine's place in its call, and the call's locals
             \* (n: calls made; passed: calls that passed the gate;
             \* late: the sink was closed when the call was made; T and
             \* time: what log read in l.Level and l.Time; at: where in w
             \* its Write began)
  owner,     \* the owner's place (idle, or in Close) and what it has done
             \* (raced: a Close returned while a Write was in flight)
  nobj,      \* error values made so far
  fails,     \* writes the sink has failed of its own accord
  hist       \* the Write calls that returned, oldest first

vars == <<workload, Level, Time, mu, w, closed, exitCode, th, owner, nobj, fails, hist>>

NoInput == Input("none", "method", <<>>, <<>>, NoText, <<>>, Clock1)
NoValue == [kind |-> "none", n |-> 0, s |-> <<>>, id |-> 0]

Idle ==
  [pc |-> "idle", n |-> 0, passed |-> 0, in |-> NoInput, err |-> NoValue, stack |-> <<>>,
   late |-> FALSE, level |-> 0, skip |-> 0, format |-> <<>>, args |-> <<>>,
   T |-> 0, time |-> FALSE, msg |-> <<>>, at |-> 0, wres |-> "none", ret |-> NoValue]

\* After New(w) (lines 58-64), or as Default is declared (lines 151-155).
InitLogger ==
  /\ Level = ErrorLevel
  /\ Time = TRUE
  /\ mu = 0
  /\ w = <<>>
  /\ closed = FALSE
  /\ exitCode = -1
  /\ th = [t \in Threads |-> Idle]
  /\ owner = [pc |-> "idle", ops |-> 0, closes |-> 0, raced |-> FALSE]
  /\ nobj = 0
  /\ fails = 0
  /\ hist = <<>>

Init == workload = "goroutines" /\ InitLogger
InitFormats == workload = "formats" /\ InitLogger

Running == exitCode = -1

\* ------------------------------------------------------------- the sink

\* The io.WriteCloser takes the bytes of one Write in two pieces: the first
\* when the call starts, the rest when it returns.
FirstPiece(p) == SubSeq(p, 1, (Len(p) + 1) \div 2)
RestPiece(p) == SubSeq(p, (Len(p) + 1) \div 2 + 1, Len(p))

\* A sink that puts what it takes in front.
SinkTakesInFront(bytes, p) == p \o bytes

\* The sink's bytes after it has taken the piece p.
SinkTakes(bytes, p) == bytes \o p

\* ----------------------------------------------------------- the actions

\* A lock that is always granted.
LockGranted(holder) == TRUE

\* Line 108, l.Lock(): the mutex must be free.
CanLock(holder) == holder = 0

\* An Unlock skipped when Write returned an error.
UnlocksAfterSuccess(wres) == wres = "ok"

\* Line 110, l.Unlock(), runs whatever Write returned.
UnlocksAfter(wres) == TRUE

\* A Close that waits for the mutex.
CloseWaitsForLock(holder) == holder = 0

\* Lines 67-69: Close closes the sink and takes no lock.
CanClose(holder) == TRUE

\* Line 127: the error Errorf returns.
ErrorfError(id, format, a) == ErrV(id, Sprintf(format, a))

\* Lines 140 and 147: os.Exit(1).
ExitStatus == 1

\* A goroutine calls a level method, or the package-level function of its
\* name; Error and Fatal are handed an error the caller made (or nil).
Call(t) ==
  /\ Running
  /\ t \in Active(workload)
  /\ th[t].pc = "idle"
  /\ th[t].n < CallsOf(workload)
  /\ \E in \in Inputs(workload, t, th[t].n + 1) :
       LET made == in.kind \in {"Error", "Fatal"} /\ in.errText # NoText IN
       /\ th' = [th EXCEPT ![t] =
                   [Idle EXCEPT !.pc = IF in.route = "package" THEN "wrapper" ELSE "method",
                                !.n = th[t].n + 1,
                                !.passed = th[t].passed,
                                !.in = in,
                                !.err = IF made THEN ErrV(nobj + 1, in.errText)
                                        ELSE IF in.kind \in {"Error", "Fatal"} THEN NilV
                                        ELSE NoValue,
                                !.late = closed,
                                !.stack = in.user]]
       /\ nobj' = IF made THEN nobj + 1 ELSE nobj
  /\ UNCHANGED <<workload, Level, Time, mu, w, closed, exitCode, owner, fails, hist>>

\* Lines 157-184: the package-level function calls the method on Default.
Wrapper(t) ==
  /\ Running
  /\ th[t].pc = "wrapper"
  /\ th' = [th EXCEPT ![t].pc = "method",
                      ![t].stack = <<Frame(LogGo, WrapperLine(th[t].in.kind))>> \o th[t].stack]
  /\ UNCHANGED <<workload, Level, Time, mu, w, closed, exitCode, owner, nobj, fails, hist>>

\* Lines 114-148: the method calls l.log with its level and skip 1.
Method(t) ==
  /\ Running
  /\ th[t].pc = "method"
  /\ th' = [th EXCEPT ![t].pc = "gate",
                      ![t].level = KindLevel(th[t].in.kind),
                      ![t].skip = MethodSkip,
                      ![t].format = LogFormat(th[t].in),
                      ![t].args = LogArgs(th[t].in, th[t].err),
                      ![t].stack = <<LogFrame, Frame(LogGo, MethodLine(th[t].in.kind))>>
                                     \o th[t].stack]
  /\ UNCHANGED <<workload, Level, Time, mu, w, closed, exitCode, owner, nobj, fails, hist>>

\* Lines 74-76: log reads l.Level and returns when the level is above it.
Gate(t) ==
  /\ Running
  /\ th[t].pc = "gate"
  /\ th' = [th EXCEPT ![t].T = Level,
                      ![t].passed = IF GatedOut(th[t].level, Level)
                                    THEN th[t].passed ELSE th[t].passed + 1,
                      ![t].pc = IF GatedOut(th[t].level, Level) THEN "ret" ELSE "format"]
  /\ UNCHANGED <<workload, Level, Time, mu, w, closed, exitCode, owner, nobj, fails, hist>>

\* Lines 79-106: log builds the message; it reads l.Time and the clock.
Format(t) ==
  /\ Running
  /\ th[t].pc = "format"
  /\ th' = [th EXCEPT ![t].pc = "lock",
                      ![t].time = Time,
                      ![t].msg = FormatLine(th[t].level, th[t].skip, th[t].format,
                                            th[t].args, th[t].stack, Time, th[t].in.now)]
  /\ UNCHANGED <<workload, Level, Time, mu, w, closed, exitCode, owner, nobj, fails, hist>>

\* Line 108.
Lock(t) ==
  /\ Running
  /\ th[t].pc = "lock"
  /\ CanLock(mu)
  /\ mu' = t
  /\ th' = [th EXCEPT ![t].pc = "write"]
  /\ UNCHANGED <<workload, Level, Time, w, closed, exitCode, owner, nobj, fails, hist>>

Attempt(t, ok) ==
  [who |-> t, n |-> th[t].n, at |-> th[t].at, bytes |-> th[t].msg, ok |-> ok,
   late |-> th[t].late]

\* Line 109: Write is called; an open sink starts to take the bytes.
WriteBegin(t) ==
  /\ Running
  /\ th[t].pc = "write"
  /\ ~closed
  /\ w' = SinkTakes(w, FirstPiece(th[t].msg))
  /\ th' = [th EXCEPT ![t].pc = "writing", ![t].at = Len(w) + 1]
  /\ UNCHANGED <<workload, Level, Time, mu, closed, exitCode, owner, nobj, fails, hist>>

\* Line 109: Write on a closed sink returns an error and takes nothing.
WriteClosed(t) ==
  /\ Running
  /\ th[t].pc = "write"
  /\ closed
  /\ th' = [th EXCEPT ![t].pc = "unlock", ![t].wres = "err"]
  /\ hist' = Append(hist, Attempt(t, FALSE))
  /\ UNCHANGED <<workload, Level, Time, mu, w, closed, exitCode, owner, nobj, fails>>

\* Line 109: the sink takes the rest and Write returns no error.
WriteEnd(t) ==
  /\ Running
  /\ th[t].pc = "writing"
  /\ w' = SinkTakes(w, RestPiece(th[t].msg))
  /\ th' = [th EXCEPT ![t].pc = "unlock", ![t].wres = "ok"]
  /\ hist' = Append(hist, Attempt(t, TRUE))
  /\ UNCHANGED <<workload, Level, Time, mu, closed, exitCode, owner, nobj, fails>>

\* Line 109: Write stops early and returns an error, because the sink was
\* closed under it or of the sink's own accord; log drops the error.
WriteFail(t) ==
  /\ Running
  /\ th[t].pc = "writing"
  /\ closed \/ fails < MaxFails
  /\ fails' = IF closed THEN fails ELSE fails + 1
  /\ th' = [th EXCEPT ![t].pc = "unlock", ![t].wres = "err"]
  /\ hist' = Append(hist, Attempt(t, FALSE))
  /\ UNCHANGED <<workload, Level, Time, mu, w, closed, exitCode, owner, nobj>>

\* Line 110, and log returns.
Unlock(t) ==
  /\ Running
  /\ th[t].pc = "unlock"
  /\ mu' = IF UnlocksAfter(th[t].wres) THEN 0 ELSE mu
  /\ th' = [th EXCEPT ![t].pc = "ret"]
  /\ UNCHANGED <<workload, Level, Time, w, closed, exitCode, owner, nobj, fails, hist>>

\* An Errorf that returns its error only when log wrote the message.
ReturnIfLogged(t) ==
  /\ Running
  /\ th[t].pc = "ret"
  /\ ~IsFatalKind(th[t].in.kind)
  /\ th' = [th EXCEPT ![t].pc = "idle",
                      ![t].stack = th[t].in.user,
                      ![t].ret = CASE th[t].in.kind = "Errorf" /\ th[t].msg # <<>> ->
                                        ErrorfError(nobj + 1, th[t].in.format, th[t].in.args)
                                   [] th[t].in.kind = "Errorf" /\ th[t].msg = <<>> -> NilV
                                   [] th[t].in.kind = "Error" -> th[t].err
                                   [] OTHER -> NoValue]
  /\ nobj' = IF th[t].in.kind = "Errorf" /\ th[t].msg # <<>> THEN nobj + 1 ELSE nobj
  /\ UNCHANGED <<workload, Level, Time, mu, w, closed, exitCode, owner, fails, hist>>

\* Lines 127 and 133: after log, Errorf makes and returns an error, Error
\* returns its argument, Debugf and Infof return nothing.
Return(t) ==
  /\ Running
  /\ th[t].pc = "ret"
  /\ ~IsFatalKind(th[t].in.kind)
  /\ th' = [th EXCEPT ![t].pc = "idle",
                      ![t].stack = th[t].in.user,
                      ![t].ret = CASE th[t].in.kind = "Errorf" ->
                                        ErrorfError(nobj + 1, th[t].in.format, th[t].in.args)
                                   [] th[t].in.kind = "Error" -> th[t].err
                                   [] OTHER -> NoValue]
  /\ nobj' = IF th[t].in.kind = "Errorf" THEN nobj + 1 ELSE nobj
  /\ UNCHANGED <<workload, Level, Time, mu, w, closed, exitCode, owner, fails, hist>>

\* Lines 140 and 147: after log, Fatalf and Fatal end the process.
Exit(t) ==
  /\ Running
  /\ th[t].pc = "ret"
  /\ IsFatalKind(th[t].in.kind)
  /\ exitCode' = ExitStatus
  /\ th' = [th EXCEPT ![t].pc = "exited"]
  /\ UNCHANGED <<workload, Level, Time, mu, w, closed, owner, nobj, fails, hist>>

\* Lines 67-69: the owner calls Close, which calls Close on the sink.
CloseBegin ==
  /\ Running
  /\ owner.pc = "idle"
  /\ owner.ops < MaxOps
  /\ owner' = [owner EXCEPT !.pc = "closing", !.ops = owner.ops + 1]
  /\ UNCHANGED <<workload, Level, Time, mu, w, closed, exitCode, th, nobj, fails, hist>>

CloseEnd ==
  /\ Running
  /\ owner.pc = "closing"
  /\ CanClose(mu)
  /\ closed' = TRUE
  /\ owner' = [owner EXCEPT !.pc = "idle", !.closes = owner.closes + 1,
                             !.raced = owner.raced \/ \E t \in Threads : th[t].pc = "writing"]
  /\ UNCHANGED <<workload, Level, Time, mu, w, exitCode, th, nobj, fails, hist>>

\* Lines 10-11 and 50-51: the owner assigns the exported fields.
SetLevel ==
  /\ Running
  /\ owner.pc = "idle"
  /\ owner.ops < MaxOps
  /\ \E v \in LevelValues \ {Level} : Level' = v
  /\ owner' = [owner EXCEPT !.ops = owner.ops + 1]
  /\ UNCHANGED <<workload, Time, mu, w, closed, exitCode, th, nobj, fails, hist>>

SetTime ==
  /\ Running
  /\ owner.pc = "idle"
  /\ owner.ops < MaxOps
  /\ Time' = ~Time
  /\ owner' = [owner EXCEPT !.ops = owner.ops + 1]
  /\ UNCHANGED <<workload, Level, mu, w, closed, exitCode, th, nobj, fails, hist>>

Next ==
  \/ \E t \in Threads : Call(t)
  \/ \E t \in Threads : Wrapper(t)
  \/ \E t \in Threads : Method(t)
  \/ \E t \in Threads : Gate(t)
  \/ \E t \in Threads : Format(t)
  \/ \E t \in Threads : Lock(t)
  \/ \E t \in Threads : WriteBegin(t)
  \/ \E t \in Threads : WriteClosed(t)
  \/ \E t \in Threads : WriteEnd(t)
  \/ \E t \in Threads : WriteFail(t)
  \/ \E t \in Threads : Unlock(t)
  \/ \E t \in Threads : Return(t)
  \/ \E t \in Threads : Exit(t)
  \/ CloseBegin
  \/ CloseEnd
  \/ SetLevel
  \/ SetTime

\* Goroutines that log concurrently.
Spec == Init /\ [][Next]_vars
\* One goroutine, one call, on every input.
SpecFormats == InitFormats /\ [][Next]_vars

\* ------------------------------------------------------------ the claims

\* The Write calls that returned for goroutine t's n-th call.
Attempts(t, n) == {i \in 1..Len(hist) : hist[i].who = t /\ hist[i].n = n}

\* The goroutine's current call has left log (or the process has ended).
LeftLog(t) == th[t].n > 0 /\ th[t].pc \in {"ret", "idle", "exited"}
\* The goroutine's current call is between the gate and the end of log.
PastGate(t) == th[t].pc \in {"format", "lock", "write", "writing", "unlock"}
\* The goroutine's current call has built its message.
Built(t) == th[t].msg # <<>>

RECURSIVE TrailingNewlines(_)
TrailingNewlines(s) ==
  IF HasNewlineSuffix(s) THEN 1 + TrailingNewlines(SubSeq(s, 1, Len(s) - 1)) ELSE 0

EndsWith(s, suffix) ==
  /\ Len(suffix) <= Len(s)
  /\ SubSeq(s, Len(s) - Len(suffix) + 1, Len(s)) = suffix

\* C1: a call at severity S, made when log reads the threshold T in
\* l.Level, goes on to format and write exactly when S <= T; a call that is
\* gated out makes no Write at all, and one that passes makes exactly one.
\* With a single goroutine the sink is empty after a gated call and holds
\* the message after one that passed and whose Write succeeded.
C1_GateIff ==
  \A t \in Threads :
    /\ PastGate(t) => th[t].level <= th[t].T
    /\ LeftLog(t) =>
         /\ th[t].level <= th[t].T => Cardinality(Attempts(t, th[t].n)) = 1
         /\ th[t].level > th[t].T =>
              /\ Attempts(t, th[t].n) = {}
              /\ ~Built(t)
              /\ workload = "formats" => w = <<>>
         /\ (workload = "formats" /\ th[t].wres = "ok") => w = th[t].msg /\ w # <<>>

\* An Infof call made at threshold Info was written; so was nothing else.
C1_Witness ==
  \E t \in Threads :
    /\ LeftLog(t) /\ th[t].in.kind = "Infof" /\ th[t].T = InfoLevel
    /\ th[t].wres = "ok" /\ w = th[t].msg

\* The body log formats: the format and the arguments the method passed.
BodyOf(t) == Sprintf(th[t].format, th[t].args)

\* C3 as stated: every message ends with exactly one newline, whatever the
\* body ends with.
C3_ExactlyOneNewline ==
  \A t \in Threads : Built(t) => TrailingNewlines(th[t].msg) = 1

\* C3, amended: every message ends with a newline; the message is the
\* prefix, the body and, only if the body is empty or ends with another
\* byte, one newline. So it ends with exactly one newline when the body
\* ends with at most one, and with as many as the body when it ends with
\* more: a newline is never removed.
C3_NewlineAppendedOnce ==
  \A t \in Threads : Built(t) =>
    LET body == BodyOf(t)
        k == TrailingNewlines(body)
    IN  /\ HasNewlineSuffix(th[t].msg)
        /\ TrailingNewlines(th[t].msg) = IF k = 0 THEN 1 ELSE k
        /\ EndsWith(th[t].msg, IF k = 0 THEN <<" ">> \o body \o <<"\n">>
                                         ELSE <<" ">> \o body)
        /\ \A i \in Attempts(t, th[t].n) : hist[i].bytes = th[t].msg

\* An Error call whose error text ends with a newline was written: the
\* line ends with two.
C3_Witness ==
  \E t \in Threads :
    /\ th[t].in.kind = "Error" /\ th[t].wres = "ok"
    /\ TrailingNewlines(BodyOf(t)) = 2
    /\ EndsWith(w, <<"b", "\n", "\n">>)

\* The goroutine's current call has built its message and is still in log,
\* or in the method that called log: its stack is the one log saw.
Formatted(t) == th[t].pc \in {"lock", "write", "writing", "unlock", "ret", "exited"} /\ Built(t)

\* The first k runes of s.
RECURSIVE TakeRunes(_, _)
TakeRunes(s, k) ==
  IF k = 0 \/ s = <<>> THEN <<>>
  ELSE IF Len(s) >= 2 /\ IsLead2(s[1]) /\ IsCont(s[2])
       THEN <<s[1], s[2]>> \o TakeRunes(SubSeq(s, 3, Len(s)), k - 1)
       ELSE <<s[1]>> \o TakeRunes(Tail(s), k - 1)

KeepLast(s, k) == IF Len(s) > k THEN SubSeq(s, Len(s) - k + 1, Len(s)) ELSE s

\* Where the location field starts in the message: after the time, if any,
\* the level's letter and a space.
FieldStart(t) == (IF th[t].time THEN Len(TimeFormat(th[t].in.now)) ELSE 0) + 3
FieldOf(t) == TakeRunes(SubSeq(th[t].msg, FieldStart(t), Len(th[t].msg)), 18)

\* The frame log's runtime.Caller(2 + skip) returned, and the name and line
\* that go into the field.
Reported(t) == Caller(th[t].stack, 2 + th[t].skip)
ReportedName(t) == IF Reported(t).ok THEN Base(Reported(t).file) ELSE Unknown
Natural(t) == ReportedName(t) \o <<":">> \o Itoa(Reported(t).line)

\* C4 as stated: the field is 18 characters wide; it is basename:line padded
\* with spaces to 18 when that is shorter than 18 characters, and the last
\* 18 characters of basename:line when it is longer (checked on the names
\* of one-byte characters, where characters and bytes are the same).
C4_NaturalRendering ==
  \A t \in Threads : (Formatted(t) /\ RuneCount(Natural(t)) = Len(Natural(t))) =>
    /\ RuneCount(FieldOf(t)) = 18
    /\ FieldOf(t) = IF RuneCount(Natural(t)) <= 18
                    THEN Natural(t) \o Spaces(18 - RuneCount(Natural(t)))
                    ELSE KeepLast(Natural(t), 18)

\* C4, amended: the field is 18 characters (runes) wide and a space follows
\* it. What is padded or cut is basename:line with the line number
\* left-justified in 4 columns ("%s:%-4d"): when that is at most 18 bytes
\* long it is padded with spaces to 18 characters, and when it is longer
\* its last 18 bytes are kept (and padded to 18 characters if they hold
\* fewer). So a basename:line of 16 to 18 characters with a line number of
\* fewer than 4 digits loses characters at the front although it would fit.
C4_LocationField ==
  \A t \in Threads : Formatted(t) =>
    LET digits == Itoa(Reported(t).line)
        fl == ReportedName(t) \o <<":">> \o digits \o Spaces(4 - Len(digits))
        kept == KeepLast(fl, 18)
        field == FieldOf(t)
    IN  /\ RuneCount(field) = 18
        /\ field = kept \o Spaces(18 - RuneCount(kept))
        /\ th[t].msg[FieldStart(t) + Len(field)] = " "
        /\ ~Reported(t).ok => field = Unknown \o <<":", "0">> \o Spaces(9)

\* A written line whose basename:line, 17 characters, would fit, and whose
\* field starts with the name's third letter.
C4_Witness ==
  \E t \in Threads :
    /\ Formatted(t) /\ th[t].wres = "ok" /\ ~th[t].time
    /\ Len(Natural(t)) = 17
    /\ SubSeq(w, 3, 5) = <<"c", "d", "e">>

\* C7: on both routes the frame log reports is the call site, the first of
\* the caller's frames; log is passed skip 1 and asks for frame 2 + skip.
C7_TrueCallSite ==
  \A t \in Threads : Formatted(t) =>
    /\ th[t].skip = 1
    /\ Reported(t).ok
    /\ Reported(t).file = th[t].in.user[1].file
    /\ Reported(t).line = th[t].in.user[1].line

\* The goroutine's call has returned to its caller.
Returned(t) == th[t].n > 0 /\ th[t].pc = "idle"

\* C5: Errorf returns a new error whose text is the formatted message,
\* whatever threshold log read: also when the call was gated out, in which
\* case no Write was made (and a lone goroutine's sink is still empty).
\* Errorf("x=%d", 5) returns "x=5". Error returns the error it was given.
C5_ErrorReturned ==
  \A t \in Threads : Returned(t) =>
    /\ th[t].in.kind = "Errorf" =>
         /\ th[t].ret.kind = "err"
         /\ th[t].ret.s = Sprintf(th[t].in.format, th[t].in.args)
         /\ th[t].in.format = <<"x", "=", "%d">> => th[t].ret.s = <<"x", "=", "5">>
         /\ th[t].ret.id > 0
         /\ \A u \in Threads : th[u].err.id # th[t].ret.id
         /\ \A u \in Threads \ {t} : th[u].ret.id # th[t].ret.id
         /\ th[t].level > th[t].T =>
              /\ Attempts(t, th[t].n) = {}
              /\ workload = "formats" => w = <<>>
    /\ th[t].in.kind = "Error" => th[t].ret = th[t].err
    /\ th[t].in.kind \in {"Debugf", "Infof"} => th[t].ret = NoValue

\* Errorf("x=%d", 5) at threshold Fatal returned "x=5" and wrote nothing.
C5_Witness ==
  \E t \in Threads :
    /\ Returned(t) /\ th[t].in.kind = "Errorf" /\ th[t].T = FatalLevel
    /\ th[t].ret.s = <<"x", "=", "5">>
    /\ w = <<>>

\* What holds of Fatalf and Fatal at every threshold: the process ends with
\* status 1 and only through them, the call never returns, the exit waits
\* for nothing once log has returned, and the sink is closed only by Close.
FatalExits ==
  /\ exitCode \in {-1, 1}
  /\ exitCode = 1 <=> \E t \in Threads : th[t].pc = "exited"
  /\ \A t \in Threads :
       /\ th[t].pc = "exited" => IsFatalKind(th[t].in.kind)
       /\ IsFatalKind(th[t].in.kind) => ~Returned(t) /\ th[t].ret = NoValue
       /\ (Running /\ th[t].pc = "ret" /\ IsFatalKind(th[t].in.kind)) => ENABLED Exit(t)
  /\ closed => owner.closes > 0

\* C6 as stated: at every threshold the message's Write has returned (with
\* or without an error) when the process ends.
C6_WriteBeforeExit ==
  /\ FatalExits
  /\ \A t \in Threads : th[t].pc = "exited" => Cardinality(Attempts(t, th[t].n)) = 1

\* C6, amended: at every threshold at or above Fatal (all four named levels)
\* the message's Write has returned, with or without an error, when the
\* process ends; at a threshold below Fatal (a negative Level) nothing is
\* written, and the process ends with status 1 all the same.
C6_FatalExit ==
  /\ FatalExits
  /\ \A t \in Threads : th[t].pc = "exited" =>
       /\ th[t].T >= FatalLevel => Cardinality(Attempts(t, th[t].n)) = 1
       /\ th[t].T < FatalLevel => Attempts(t, th[t].n) = {} /\ ~Built(t)

\* The process has ended after a Fatal whose Write returned an error.
C6_Witness ==
  \E t \in Threads :
    /\ th[t].pc = "exited" /\ exitCode = 1 /\ th[t].in.kind = "Fatal"
    /\ th[t].wres = "err"
    /\ \E i \in Attempts(t, th[t].n) : ~hist[i].ok

\* The bytes of the Write calls that returned, in the order they returned.
RECURSIVE Flat(_)
Flat(h) == IF h = <<>> THEN <<>> ELSE h[1].bytes \o Flat(Tail(h))

RECURSIVE NewlineCount(_)
NewlineCount(s) ==
  IF s = <<>> THEN 0 ELSE (IF s[1] = "\n" THEN 1 ELSE 0) + NewlineCount(Tail(s))

Writing == {t \in Threads : th[t].pc = "writing"}
AllWritesOk == \A i \in 1..Len(hist) : hist[i].ok

\* The line goroutine t's n-th call ends with, here where every body names
\* its goroutine and its call.
LineEnd(t, n) == <<Digit(t), "-", Digit(n), "\n">>

\* C2: at most one Write is in flight, and only under the lock. While no
\* Write has returned an error, the sink holds the whole messages of the
\* Write calls that returned, one after the other, and after them only the
\* first piece of the one in flight; every message is one line that names
\* its call, no call has two, and every call that passed the gate and left
\* log has one. So when each of N goroutines has made M calls that all
\* passed the gate, the sink holds N * M lines.
C2_Serialized ==
  /\ Cardinality(Writing) <= 1
  /\ \A t \in Threads : th[t].pc \in {"write", "writing", "unlock"} => mu = t
  /\ AllWritesOk =>
       /\ \A t \in Writing : w = Flat(hist) \o FirstPiece(th[t].msg)
       /\ Writing = {} => w = Flat(hist)
  /\ \A i \in 1..Len(hist) :
       /\ EndsWith(hist[i].bytes, LineEnd(hist[i].who, hist[i].n))
       /\ NewlineCount(hist[i].bytes) = 1
       /\ \A j \in 1..Len(hist) : (hist[j].who = hist[i].who /\ hist[j].n = hist[i].n) => j = i
  /\ \A t \in Threads :
       Cardinality({i \in 1..Len(hist) : hist[i].who = t})
         = th[t].passed - (IF th[t].pc \in {"format", "lock", "write", "writing"} THEN 1 ELSE 0)
  /\ (AllWritesOk /\ \A t \in Threads : Returned(t) /\ th[t].passed = MaxCalls) =>
       /\ Len(hist) = NThreads * MaxCalls
       /\ NewlineCount(w) = NThreads * MaxCalls

\* Every goroutine has made all its calls, all were written, and the sink
\* holds the lines of goroutines 1 and 2 in turn.
C2_Witness ==
  /\ \A t \in Threads : Returned(t) /\ th[t].n = MaxCalls /\ th[t].passed = MaxCalls
  /\ AllWritesOk
  /\ Len(hist) = NThreads * MaxCalls
  /\ w = Flat(hist)
  /\ hist[1].who = 1 /\ hist[2].who = 2 /\ hist[3].who = 1

\* C8: a Write that returns an error changes nothing else. A goroutine
\* holds the lock exactly from Lock to Unlock, so not when its call ends,
\* whatever Write returned; a call makes at most one Write; Errorf returns
\* the error it returns after a Write that succeeded; and a goroutine that
\* comes to the lock when it is free can take it, and one that holds it can
\* call Write, whatever the earlier Writes returned.
C8_WriteFailureIgnored ==
  \A t \in Threads :
    /\ mu = t <=> th[t].pc \in {"write", "writing", "unlock"}
    /\ Cardinality(Attempts(t, th[t].n)) <= 1
    /\ (Returned(t) /\ th[t].in.kind = "Errorf") =>
         /\ th[t].ret.kind = "err"
         /\ th[t].ret.s = Sprintf(th[t].in.format, th[t].in.args)
         /\ workload = "goroutines" => th[t].ret.s = <<Digit(t), "-", Digit(th[t].n)>>
    /\ (Running /\ th[t].pc = "lock" /\ mu = 0) => ENABLED Lock(t)
    /\ (Running /\ th[t].pc = "write") => ENABLED WriteBegin(t) \/ ENABLED WriteClosed(t)

\* On an open sink a Write returned an error, its Errorf returned its error
\* all the same, and a later call's Write succeeded.
C8_Witness ==
  \E i, j \in 1..Len(hist) :
    /\ i < j /\ ~hist[i].ok /\ hist[j].ok /\ ~closed
    /\ LET t == hist[i].who IN
         /\ Returned(t) /\ th[t].n = hist[i].n /\ th[t].in.kind = "Errorf"
         /\ th[t].wres = "err" /\ th[t].ret.s = <<Digit(t), "-", Digit(th[t].n)>>

\* C9: Close needs no lock: once the owner is in Close, the sink can be
\* closed whoever holds the mutex. The Logger does not remember the close:
\* a goroutine at the gate, at the free lock or at Write goes on as before,
\* and a call made after the close that passes the gate makes its Write,
\* on the closed sink, which returns an error.
C9_CloseTakesNoLock ==
  /\ (Running /\ owner.pc = "closing") => ENABLED CloseEnd
  /\ \A t \in Threads :
       /\ (Running /\ th[t].pc = "gate") => ENABLED Gate(t)
       /\ (Running /\ th[t].pc = "lock" /\ mu = 0) => ENABLED Lock(t)
       /\ (Running /\ th[t].pc = "write" /\ closed) => ENABLED WriteClosed(t)
       /\ (LeftLog(t) /\ th[t].late /\ th[t].level <= th[t].T) =>
            /\ Cardinality(Attempts(t, th[t].n)) = 1
            /\ \A i \in Attempts(t, th[t].n) : hist[i].late /\ ~hist[i].ok
  /\ owner.raced => closed

\* Close returned while a Write was in flight, and a call made after the
\* close made its Write on the closed sink.
C9_Witness ==
  /\ owner.raced
  /\ \E i \in 1..Len(hist) : hist[i].late /\ ~hist[i].ok

\* C10: the lines of one goroutine are in the sink in the order of its
\* calls: every message whose Write succeeded is in the sink where that
\* Write began, and of two such messages of one goroutine the earlier
\* call's ends before the later call's begins.
C10_ProgramOrder ==
  \A i \in 1..Len(hist) : hist[i].ok =>
    /\ SubSeq(w, hist[i].at, hist[i].at + Len(hist[i].bytes) - 1) = hist[i].bytes
    /\ EndsWith(hist[i].bytes, LineEnd(hist[i].who, hist[i].n))
    /\ \A j \in 1..Len(hist) :
         (hist[j].ok /\ hist[j].who = hist[i].who /\ hist[i].n < hist[j].n) =>
           hist[i].at + Len(hist[i].bytes) <= hist[j].at

\* Goroutine 1's two lines are in the sink with a line of goroutine 2
\* between them.
C10_Witness ==
  \E i, j, k \in 1..Len(hist) :
    /\ hist[i].ok /\ hist[j].ok /\ hist[k].ok
    /\ hist[i].who = 1 /\ hist[i].n = 1
    /\ hist[j].who = 2
    /\ hist[k].who = 1 /\ hist[k].n = 2
    /\ hist[i].at < hist[j].at /\ hist[j].at < hist[k].at

====
